---- MODULE Spec2Model ----
(***************************************************************************)
(* Offline retail recommendation pipeline:                                 *)
(*   features/build_interactions.py  raw events -> interactions           *)
(*   evaluation/split.py             interactions -> train / test         *)
(*   baselines/popularity.py         train -> popularity recs             *)
(*   baselines/cooccurrence.py       train -> neighbours -> recs          *)
(*   evaluation/metrics.py           recs + test -> Recall@K / MAP@K      *)
(* Every script is a batch program; each one is modelled as one action    *)
(* that reads its input artifact and appends its output to a run log.     *)
(* Ids are strings in the code; they are modelled as integers and the     *)
(* integer order stands for the string order.                             *)
(* Where polars leaves an order unspecified (sort ties, group_by and      *)
(* unique output order) the action chooses among all orders allowed.      *)
(***************************************************************************)
EXTENDS Integers, Sequences, FiniteSets, TLC

\* ---------------------------------------------------------------- bounds
SplitUsers == 2
SplitItems == 2
MaxDate == 3
MaxRows == 2
MetricItems == 4
MaxRecLen == 3
MaxKMetric == 5
MaxUsers == 2
MaxItems == 3
MaxScore == 2
MaxTrainRows == 4
MaxK == 2
MaxSeeds == 3
MaxNeighbors == 2
MaxLimit == 1
MaxRerunRows == 3
EvalUsers == 2
EvalItems == 2
MaxEvalLen == 2
MaxKEval == 2
MaxEvalLimit == 1
MaxPipelineRows == 3
MaxTestRows == 1
ScoreItems == 2
MaxEvents == 2
MaxEventDate == 2
MaxToday == 4

\* ------------------------------------------------------ program constants
\* popularity.py: .limit(5000), the size of the popularity pool
PoolLimit == 5000
\* build_interactions.py: half_life_days = 30.0
half_life_days == 30

VARIABLES
    script,         \* baselines: the script that is run, popularity or cooccurrence
    reruns,         \* baselines: how many times the script is run on the snapshot
    interactions,   \* split.py: rows of interactions.parquet (a sequence)
    cutoff_date,    \* split.py: the cutoff date
    splitRuns,      \* split.py: outputs of the runs of make_time_split
    m_recs,         \* metrics.py: argument recs of recall_at_k
    m_truth,        \* metrics.py: argument truth of recall_at_k
    m_k,            \* metrics.py: argument k of recall_at_k
    m_result,       \* metrics.py: values returned (at most one)
    train,          \* baselines: rows of train_interactions.parquet (a set)
    cfg_k,          \* baselines: parameter k
    max_users,      \* baselines: parameter max_users, <<>> for None, <<n>> for n
    seed_items_per_user,   \* cooccurrence.py: parameter
    neighbors_per_item,    \* cooccurrence.py: parameter
    popRuns,        \* popularity.py: outputs of the runs of build_popularity_recs
    neighbors_df,   \* cooccurrence.py: latest output of build_item_neighbors
    coRuns,         \* cooccurrence.py: runs of build_cooccurrence_recs
    recs_df,        \* metrics.py: the recommendation file, customer_id -> recs
    test,           \* metrics.py: rows of test_interactions.parquet (a set)
    e_k,            \* metrics.py: parameter k of evaluate_recs
    e_max_users,    \* metrics.py: parameter max_users, <<>> for None
    evalRuns,       \* metrics.py: results of the runs of evaluate_recs
    transactions,   \* build_interactions.py: rows of transactions_train.csv
    today,          \* build_interactions.py: the system clock, date.today()
    scoreRuns       \* build_interactions.py: outputs of the runs of main

splitVars == <<interactions, cutoff_date, splitRuns>>
metricVars == <<m_recs, m_truth, m_k, m_result>>
recInputs == <<script, reruns, train, cfg_k, max_users, seed_items_per_user, neighbors_per_item>>
recVars == <<recInputs, popRuns, neighbors_df, coRuns>>
evalVars == <<recs_df, test, e_k, e_max_users, evalRuns>>
scoreVars == <<transactions, today, scoreRuns>>
vars == <<splitVars, metricVars, recVars, evalVars, scoreVars>>

\* ---------------------------------------------------------------- helpers
Min(a, b) == IF a <= b THEN a ELSE b
Max(a, b) == IF a >= b THEN a ELSE b
Range(s) == {s[i] : i \in DOMAIN s}

SeqsUpTo(S, n) == UNION {[1..m -> S] : m \in 0..n}

RECURSIVE GCD(_, _)
GCD(a, b) == IF b = 0 THEN a ELSE GCD(b, a % b)

\* A float that is a quotient of two integers, kept exact: <<num, den>> in
\* lowest terms, den > 0.
Rat(n, d) == LET g == GCD(n, d) IN IF n = 0 THEN <<0, 1>> ELSE <<n \div g, d \div g>>
RatAdd(x, y) == Rat(x[1] * y[2] + y[1] * x[2], x[2] * y[2])
RatDiv(x, n) == Rat(x[1], x[2] * n)

\* Python's s[:k], negative k included.
Prefix(s, k) ==
    LET n == IF k >= 0 THEN Min(k, Len(s)) ELSE Max(Len(s) + k, 0)
    IN  SubSeq(s, 1, n)

\* ======================================================== evaluation/split.py
SplitRowSet ==
    [customer_id : 1..SplitUsers, article_id : 1..SplitItems, last_seen : 1..MaxDate]

\* interactions.parquet holds one row per (customer_id, article_id) and every
\* last_seen is a date (build_interactions drops null dates before max()).
InteractionTables ==
    {t \in SeqsUpTo(SplitRowSet, MaxRows) :
        \A i, j \in DOMAIN t :
            (t[i].customer_id = t[j].customer_id /\ t[i].article_id = t[j].article_id)
                => i = j}

InTrain(r, cutoff) == r.last_seen < cutoff
InTest(r, cutoff) == r.last_seen >= cutoff

make_time_split_off_by_one(rows, cutoff) ==
    [train |-> SelectSeq(rows, LAMBDA r : r.last_seen <= cutoff),
     test |-> SelectSeq(rows, LAMBDA r : InTest(r, cutoff))]

make_time_split(rows, cutoff) ==
    [train |-> SelectSeq(rows, LAMBDA r : InTrain(r, cutoff)),
     test |-> SelectSeq(rows, LAMBDA r : InTest(r, cutoff))]

InitSplitVars ==
    /\ interactions \in InteractionTables
    /\ cutoff_date \in 0..(MaxDate + 1)
    /\ splitRuns = <<>>

IdleSplitVars ==
    /\ interactions = <<>>
    /\ cutoff_date = 0
    /\ splitRuns = <<>>

MakeTimeSplit ==
    /\ Len(splitRuns) < 1
    /\ splitRuns' = Append(splitRuns, make_time_split(interactions, cutoff_date))
    /\ UNCHANGED <<interactions, cutoff_date, metricVars, recVars, evalVars, scoreVars>>

\* ====================================================== evaluation/metrics.py
RECURSIVE CountHits(_, _)
\* sum(1 for a in pred if a in truth)
CountHits(pred, truth) ==
    IF pred = <<>> THEN 0
    ELSE (IF Head(pred) \in truth THEN 1 ELSE 0) + CountHits(Tail(pred), truth)

recall_at_k_untruncated(recs, truth, k) ==
    IF truth = {} THEN <<0, 1>>
    ELSE Rat(CountHits(recs, truth), Cardinality(truth))

recall_at_k(recs, truth, k) ==
    IF truth = {} THEN <<0, 1>>
    ELSE LET pred == Prefix(recs, k)
             hit == CountHits(pred, truth)
         IN  Rat(hit, Cardinality(truth))

InitMetricVars ==
    /\ m_recs \in SeqsUpTo(1..MetricItems, MaxRecLen)
    /\ m_truth \in SUBSET (1..MetricItems)
    /\ m_k \in (-1)..MaxKMetric
    /\ m_result = <<>>

IdleMetricVars ==
    /\ m_recs = <<>>
    /\ m_truth = {}
    /\ m_k = 0
    /\ m_result = <<>>

CallRecallAtK ==
    /\ m_result = <<>>
    /\ m_result' = <<recall_at_k(m_recs, m_truth, m_k)>>
    /\ UNCHANGED <<m_recs, m_truth, m_k, splitVars, recVars, evalVars, scoreVars>>

\* ================================================================ baselines
Users == 1..MaxUsers
Items == 1..MaxItems

\* train_interactions.parquet: one row per (customer_id, article_id); the
\* float implicit_score is kept as a value of an ordered set.
TrainRowSet == [customer_id : Users, article_id : Items, implicit_score : 1..MaxScore]

TrainTables ==
    {t \in SUBSET TrainRowSet :
        /\ Cardinality(t) <= MaxTrainRows
        /\ \A r1, r2 \in t :
              (r1.customer_id = r2.customer_id /\ r1.article_id = r2.article_id)
                  => r1 = r2}

\* train.select("customer_id").unique()
TrainUsers(t) == {r.customer_id : r \in t}
\* train.group_by("customer_id").agg(pl.col("article_id").unique())
Seen(t, u) == {r.article_id : r \in {x \in t : x.customer_id = u}}
\* train.group_by("article_id").agg(pl.len())
ItemCount(t, a) == Cardinality({r \in t : r.article_id = a})

RECURSIVE Perms(_)
\* The arrangements of the elements of S in a sequence.
Perms(S) ==
    IF S = {} THEN {<<>>}
    ELSE UNION {{Append(p, x) : p \in Perms(S \ {x})} : x \in S}

\* .sort(key, descending=True): every arrangement of the rows DOMAIN key with
\* the key non-increasing; polars leaves the order of equal keys unspecified.
SortDescending(key) ==
    {s \in Perms(DOMAIN key) : \A i, j \in DOMAIN s : i < j => key[s[i]] >= key[s[j]]}

RECURSIVE Choose(_)
\* A choice of one element of choice[d] for every d.
Choose(choice) ==
    IF DOMAIN choice = {} THEN {choice}
    ELSE LET d == CHOOSE x \in DOMAIN choice : TRUE
             rest == Choose([x \in DOMAIN choice \ {d} |-> choice[x]])
         IN  {[x \in DOMAIN choice |-> IF x = d THEN v ELSE g[x]] :
                 v \in choice[d], g \in rest}

RECURSIVE Sum(_)
\* The sum of the values of function f.
Sum(f) ==
    IF DOMAIN f = {} THEN 0
    ELSE LET x == CHOOSE y \in DOMAIN f : TRUE
         IN  f[x] + Sum([y \in DOMAIN f \ {x} |-> f[y]])

\* ---------------------------------------------------- baselines/popularity.py
\* top_items: group_by article_id, count, sort by cnt descending, limit 5000
TopItems(t) ==
    {SubSeq(s, 1, Min(PoolLimit, Len(s))) :
        s \in SortDescending([a \in {r.article_id : r \in t} |-> ItemCount(t, a)])}

\* users_lf.limit(max_users) when max_users is not None: any max_users of the
\* users, unique() giving them in no specified order
PopularityUsers(t, mu) ==
    IF mu = <<>> THEN {TrainUsers(t)}
    ELSE {U \in SUBSET TrainUsers(t) :
            Cardinality(U) = Min(mu[1], Cardinality(TrainUsers(t)))}

RECURSIVE RecsLoop(_, _, _, _, _)
\* for a in top_items: if a not in seen_set: out.append(a)
\*                     if len(out) == k: break
RecsLoop(top_items, i, out, seen, kk) ==
    IF i > Len(top_items) THEN out
    ELSE LET out2 == IF top_items[i] \notin seen THEN Append(out, top_items[i]) ELSE out
         IN  IF Len(out2) = kk THEN out2
             ELSE RecsLoop(top_items, i + 1, out2, seen, kk)

recs_for_seen(seen, top_items, kk) == RecsLoop(top_items, 1, <<>>, seen, kk)

\* Every output build_popularity_recs can return: customer_id -> recs, with
\* the users it kept.
build_popularity_recs(t, kk, mu) ==
    {[users |-> U,
      recs |-> [u \in U |-> recs_for_seen(Seen(t, u), top, kk)]] :
        top \in TopItems(t), U \in PopularityUsers(t, mu)}

BuildPopularityRecs ==
    /\ script = "popularity"
    /\ Len(popRuns) < reruns
    /\ \E out \in build_popularity_recs(train, cfg_k, max_users) :
          popRuns' = Append(popRuns, out)
    /\ UNCHANGED <<recInputs, neighbors_df, coRuns, splitVars, metricVars, evalVars, scoreVars>>

\* -------------------------------------------------- baselines/cooccurrence.py
\* sort by implicit_score descending within the user, head(n): the possible
\* seed sets of user u
SeedChoices(t, u, n) ==
    {{r.article_id : r \in Range(SubSeq(s, 1, Min(n, Len(s))))} :
        s \in SortDescending([r \in {x \in t : x.customer_id = u} |-> r.implicit_score])}

Seeds(t, n) == Choose([u \in TrainUsers(t) |-> SeedChoices(t, u, n)])

\* left.join(right, on="customer_id").filter(item != neighbor)
Pairs(seeds) ==
    {p \in {<<u, i, j>> : u \in DOMAIN seeds, i \in Items, j \in Items} :
        /\ p[2] \in seeds[p[1]]
        /\ p[3] \in seeds[p[1]]
        /\ p[2] # p[3]}

\* pairs.group_by(["item", "neighbor"]).agg(pl.len())
Counts(seeds) ==
    LET pairs == Pairs(seeds)
        keys == {<<p[2], p[3]>> : p \in pairs}
    IN  [e \in keys |-> Cardinality({p \in pairs : p[2] = e[1] /\ p[3] = e[2]})]

\* sort by [item, cnt descending], group_by("item").head(neighbors_per_item):
\* the possible neighbour lists of item i
NeighborChoices(counts, i, npi) ==
    {[n \in 1..Min(npi, Len(s)) |-> [neighbor |-> s[n], cnt |-> counts[<<i, s[n]>>]]] :
        s \in SortDescending([j \in {x \in Items : <<i, x>> \in DOMAIN counts} |->
                                 counts[<<i, j>>]])}

\* Every output build_item_neighbors can return: item -> its edges in row
\* order, with the counts frame it was cut from.
build_item_neighbors(t, spu, npi) ==
    UNION {
        LET counts == Counts(seeds)
            items == {e[1] : e \in DOMAIN counts}
        IN  {[counts |-> counts, edges |-> f] :
                f \in Choose([i \in items |-> NeighborChoices(counts, i, npi)])} :
        seeds \in Seeds(t, spu)}

\* main() of cooccurrence.py, first half: neighbors_df = build_item_neighbors(...)
BuildItemNeighbors ==
    /\ script = "cooccurrence"
    /\ Len(coRuns) < reruns
    /\ neighbors_df = <<>>
    /\ \E out \in build_item_neighbors(train, seed_items_per_user, neighbors_per_item) :
          neighbors_df' = <<out>>
    /\ UNCHANGED <<recInputs, popRuns, coRuns, splitVars, metricVars, evalVars, scoreVars>>

\* users_lf.limit(max_users) if max_users else users_lf: None and 0 both
\* keep every user
CooccurrenceUsers(t, mu) ==
    IF mu = <<>> \/ mu[1] = 0 THEN {TrainUsers(t)}
    ELSE {U \in SUBSET TrainUsers(t) :
            Cardinality(U) = Min(mu[1], Cardinality(TrainUsers(t)))}

\* cnt of the edge item -> neighbor in neighbors_df, 0 when there is none
EdgeCnt(edges, i, j) ==
    IF i \notin DOMAIN edges THEN 0
    ELSE Sum([n \in {m \in DOMAIN edges[i] : edges[i][m].neighbor = j} |-> edges[i][n].cnt])

\* seed_items.join(neigh, on="item"): the neighbours reached from the seeds
Candidates(edges, seedset) ==
    {j \in Items : \E i \in seedset \cap DOMAIN edges :
                      \E n \in DOMAIN edges[i] : edges[i][n].neighbor = j}

\* .group_by(["customer_id", "neighbor"]).agg(pl.col("cnt").sum())
Score(edges, seedset, j) == Sum([i \in seedset |-> EdgeCnt(edges, i, j)])

\* sort by [customer_id, score descending], drop the seen neighbours,
\* head(k): the possible lists of one user; none when no neighbour is left
UserRecs(t, edges, seedset, u, kk) ==
    {LET filtered == SelectSeq(s, LAMBDA j : j \notin Seen(t, u))
     IN  IF filtered = <<>> THEN <<>> ELSE <<SubSeq(filtered, 1, Min(kk, Len(filtered)))>> :
        s \in SortDescending([j \in Candidates(edges, seedset) |->
                                 Score(edges, seedset, j)])}

\* Every output build_cooccurrence_recs can return: customer_id -> recs for
\* the users that kept a row after the filter, with the users it selected.
build_cooccurrence_recs(t, edges, kk, spu, mu) ==
    UNION {
        {[users |-> U,
          recs |-> [u \in {x \in U : g[x] # <<>>} |-> g[u][1]]] :
            g \in Choose([u \in U |-> UserRecs(t, edges, seeds[u], u, kk)])} :
        seeds \in Seeds(t, spu), U \in CooccurrenceUsers(t, mu)}

\* main() of cooccurrence.py, second half: recs_df = build_cooccurrence_recs(
\* train_path, neighbors_df=neighbors_df, ...); main returns and its local
\* neighbors_df is gone.
BuildCooccurrenceRecs ==
    /\ script = "cooccurrence"
    /\ neighbors_df # <<>>
    /\ \E out \in build_cooccurrence_recs(train, neighbors_df[1].edges, cfg_k,
                                          seed_items_per_user, max_users) :
          coRuns' = Append(coRuns, [neighbors |-> neighbors_df[1],
                                    users |-> out.users, recs |-> out.recs])
    /\ neighbors_df' = <<>>
    /\ UNCHANGED <<recInputs, popRuns, splitVars, metricVars, evalVars, scoreVars>>

\* popularity.py takes (train, k, max_users); cooccurrence.py takes these
\* and seed_items_per_user, neighbors_per_item.
InitRecVars(runs, tables, ks) ==
    /\ reruns = runs
    /\ train \in tables
    /\ cfg_k \in ks
    /\ max_users \in {<<>>} \cup {<<n>> : n \in 0..MaxLimit}
    /\ \/ /\ script = "popularity"
          /\ seed_items_per_user = 0
          /\ neighbors_per_item = 0
       \/ /\ script = "cooccurrence"
          /\ seed_items_per_user \in 1..MaxSeeds
          /\ neighbors_per_item \in 1..MaxNeighbors
    /\ popRuns = <<>>
    /\ neighbors_df = <<>>
    /\ coRuns = <<>>

IdleRecVars ==
    /\ script = "none"
    /\ reruns = 0
    /\ train = {}
    /\ cfg_k = 0
    /\ max_users = <<>>
    /\ seed_items_per_user = 0
    /\ neighbors_per_item = 0
    /\ popRuns = <<>>
    /\ neighbors_df = <<>>
    /\ coRuns = <<>>

\* ------------------------------------------- evaluation/metrics.py, continued
RECURSIVE ApLoopInverted(_, _, _, _, _)
\* The loop with the precision of a hit upside down: s += i / hits
ApLoopInverted(pred, truth, i, hits, s) ==
    IF i > Len(pred) THEN s
    ELSE IF pred[i] \in truth
         THEN ApLoopInverted(pred, truth, i + 1, hits + 1, RatAdd(s, Rat(i, hits + 1)))
         ELSE ApLoopInverted(pred, truth, i + 1, hits, s)

RECURSIVE ApLoop(_, _, _, _, _)
\* for i, a in enumerate(pred, start=1): if a in truth: hits += 1; s += hits / i
ApLoop(pred, truth, i, hits, s) ==
    IF i > Len(pred) THEN s
    ELSE IF pred[i] \in truth
         THEN ApLoop(pred, truth, i + 1, hits + 1, RatAdd(s, Rat(hits + 1, i)))
         ELSE ApLoop(pred, truth, i + 1, hits, s)

ap_at_k(recs, truth, kk) ==
    LET pred == Prefix(recs, kk) IN
    IF truth = {} THEN <<0, 1>>
    ELSE LET s == ApLoop(pred, truth, 1, 0, <<0, 1>>)
             denom == Min(Cardinality(truth), kk)
         IN  IF denom > 0 THEN RatDiv(s, denom) ELSE <<0, 1>>

RECURSIVE SumRat(_)
\* sum(...) of the values of f, each a quotient
SumRat(f) ==
    IF DOMAIN f = {} THEN <<0, 1>>
    ELSE LET x == CHOOSE y \in DOMAIN f : TRUE
         IN  RatAdd(f[x], SumRat([y \in DOMAIN f \ {x} |-> f[y]]))

\* users = recs_df.select("customer_id").unique(), head(max_users) when
\* max_users is not None
EvalUsersChoices(recs, mu) ==
    IF mu = <<>> THEN {DOMAIN recs}
    ELSE {U \in SUBSET DOMAIN recs :
            Cardinality(U) = Min(mu[1], Cardinality(DOMAIN recs))}

\* test.join(users, how="inner").group_by("customer_id").agg(article_id.unique())
TruthDf(tst, U) ==
    [u \in {r.customer_id : r \in {x \in tst : x.customer_id \in U}} |->
        {r.article_id : r \in {x \in tst : x.customer_id = u}}]

\* recs_df.join(truth_df, on="customer_id", how="inner")
EvalDf(recs, truth_df) == DOMAIN recs \cap DOMAIN truth_df

\* Every result evaluate_recs can return, with the users it kept.
evaluate_recs(recs, tst, kk, mu) ==
    {LET truth_df == TruthDf(tst, U)
         rows == EvalDf(recs, truth_df)
         recalls == [u \in rows |-> recall_at_k(recs[u], truth_df[u], kk)]
         aps == [u \in rows |-> ap_at_k(recs[u], truth_df[u], kk)]
         n == Cardinality(rows)
     IN  [capped |-> U,
          recall_at_k |-> IF n > 0 THEN RatDiv(SumRat(recalls), n) ELSE <<0, 1>>,
          map_at_k |-> IF n > 0 THEN RatDiv(SumRat(aps), n) ELSE <<0, 1>>,
          users |-> n,
          recalls |-> recalls,
          aps |-> aps] :
        U \in EvalUsersChoices(recs, mu)}

RecsFiles ==
    UNION {[U -> SeqsUpTo(1..EvalItems, MaxEvalLen)] : U \in SUBSET (1..EvalUsers)}

InitEvalVars ==
    /\ recs_df \in RecsFiles
    /\ test \in SUBSET [customer_id : 1..EvalUsers, article_id : 1..EvalItems]
    /\ e_k \in 0..MaxKEval
    /\ e_max_users \in {<<>>} \cup {<<n>> : n \in 0..MaxEvalLimit}
    /\ evalRuns = <<>>

IdleEvalVars ==
    /\ recs_df = <<>>
    /\ test = {}
    /\ e_k = 0
    /\ e_max_users = <<>>
    /\ evalRuns = <<>>

EvaluateRecs ==
    /\ evalRuns = <<>>
    /\ \E res \in evaluate_recs(recs_df, test, e_k, e_max_users) :
          evalRuns' = <<res>>
    /\ UNCHANGED <<recs_df, test, e_k, e_max_users, splitVars, metricVars, recVars, scoreVars>>

\* ------------------------------------------------ the scripts run in sequence
\* The arguments main() of popularity.py, cooccurrence.py and metrics.py pass.
MainK == 12
MainMaxUsers == 100000
MainSeedItemsPerUser == 10
MainNeighborsPerItem == 50

RECURSIVE SubsetsUpTo(_, _)
\* The subsets of S with at most n elements.
SubsetsUpTo(S, n) ==
    IF n = 0 THEN {{}}
    ELSE LET smaller == SubsetsUpTo(S, n - 1)
         IN  smaller \cup {T \cup {x} : T \in smaller, x \in S}

\* Train snapshots of at most MaxPipelineRows rows, one row per (user, item).
\* Every row carries the same implicit_score: with MainSeedItemsPerUser seeds
\* per user and fewer items than that, every item of a user is a seed whatever
\* its score.
PipelineTables ==
    {{[customer_id |-> p[1], article_id |-> p[2], implicit_score |-> 1] : p \in P} :
        P \in SubsetsUpTo(Users \X Items, MaxPipelineRows)}

\* The recs_popularity.parquet files popularity.py can write.
WrittenPopularityRecs ==
    UNION {{out.recs : out \in build_popularity_recs(t, MainK, <<MainMaxUsers>>)} :
              t \in PipelineTables}

\* The recs_cooccurrence.parquet files cooccurrence.py can write.
WrittenCooccurrenceRecs ==
    UNION {UNION {{out.recs : out \in build_cooccurrence_recs(
                                  t, nb.edges, MainK, MainSeedItemsPerUser,
                                  <<MainMaxUsers>>)} :
                     nb \in build_item_neighbors(t, MainSeedItemsPerUser,
                                                 MainNeighborsPerItem)} :
              t \in PipelineTables}

\* Test snapshots of at most MaxTestRows distinct (user, item) rows.
PipelineTests ==
    SubsetsUpTo([customer_id : Users, article_id : Items], MaxTestRows)

\* metrics.py main(): evaluate_recs(name, path, test_path, k, max_users) on the
\* file a baseline script wrote.
InitPipelineVars ==
    /\ \/ script = "popularity" /\ recs_df \in WrittenPopularityRecs
       \/ script = "cooccurrence" /\ recs_df \in WrittenCooccurrenceRecs
    /\ test \in PipelineTests
    /\ e_k \in 1..MaxKEval
    /\ e_max_users = <<MainMaxUsers>>
    /\ evalRuns = <<>>
    /\ reruns = 0
    /\ train = {}
    /\ cfg_k = 0
    /\ max_users = <<>>
    /\ seed_items_per_user = 0
    /\ neighbors_per_item = 0
    /\ popRuns = <<>>
    /\ neighbors_df = <<>>
    /\ coRuns = <<>>

\* =============================================== features/build_interactions.py
\* A csv cell: <<>> when missing, <<v>> when it holds v.
Cells(S) == {<<>>} \cup {<<v>> : v \in S}

RawRowSet == [customer_id : Cells({1}), article_id : Cells(1..ScoreItems),
              t_dat : Cells(1..MaxEventDate)]

\* .drop_nulls(["customer_id", "article_id", "t_dat"])
DropNulls(rows) ==
    SelectSeq(rows, LAMBDA r : r.customer_id # <<>> /\ r.article_id # <<>> /\ r.t_dat # <<>>)

MaxOf(S) == CHOOSE x \in S : \A y \in S : y <= x

\* group_by (customer_id, article_id): freq = len, last_seen = max(t_dat);
\* days_since_last = clock - last_seen; implicit_score =
\* log1p(freq) * exp(-days_since_last / half_life_days), kept as the
\* expression's arguments
ScoreRows(rows, clock) ==
    LET kept == DropNulls(rows)
        keys == {<<kept[i].customer_id[1], kept[i].article_id[1]>> : i \in DOMAIN kept}
        of(key) == {i \in DOMAIN kept : kept[i].customer_id[1] = key[1]
                                        /\ kept[i].article_id[1] = key[2]}
    IN  {LET freq == Cardinality(of(key))
             last_seen == MaxOf({kept[i].t_dat[1] : i \in of(key)})
             days_since_last == clock - last_seen
         IN  [customer_id |-> key[1], article_id |-> key[2], freq |-> freq,
              last_seen |-> last_seen, days_since_last |-> days_since_last,
              implicit_score |-> [log1p |-> freq, exp_minus |-> days_since_last,
                                  over |-> half_life_days]] :
            key \in keys}

InitScoreVars ==
    /\ transactions \in SeqsUpTo(RawRowSet, MaxEvents)
    /\ today \in MaxEventDate..MaxToday
    /\ scoreRuns = <<>>

IdleScoreVars ==
    /\ transactions = <<>>
    /\ today = 0
    /\ scoreRuns = <<>>

\* main(): reads the csv and date.today()
BuildInteractions ==
    /\ Len(scoreRuns) < 2
    /\ scoreRuns' = Append(scoreRuns, ScoreRows(transactions, today))
    /\ UNCHANGED <<transactions, today, splitVars, metricVars, recVars, evalVars>>

\* The day changes between two runs.
ClockTick ==
    /\ today < MaxToday
    /\ today' = today + 1
    /\ UNCHANGED <<transactions, scoreRuns, splitVars, metricVars, recVars, evalVars>>

\* ============================================================ specifications
InitSplit == InitSplitVars /\ IdleMetricVars /\ IdleRecVars /\ IdleEvalVars /\ IdleScoreVars
NextSplit == MakeTimeSplit
SpecSplit == InitSplit /\ [][NextSplit]_vars

InitMetric == IdleSplitVars /\ InitMetricVars /\ IdleRecVars /\ IdleEvalVars /\ IdleScoreVars
NextMetric == CallRecallAtK
SpecMetric == InitMetric /\ [][NextMetric]_vars

\* One run of a baseline script on a train snapshot, k >= 1.
Init ==
    /\ IdleSplitVars
    /\ IdleMetricVars
    /\ IdleEvalVars
    /\ IdleScoreVars
    /\ InitRecVars(1, TrainTables, 1..MaxK)
Next == BuildPopularityRecs \/ BuildItemNeighbors \/ BuildCooccurrenceRecs
Spec == Init /\ [][Next]_vars

\* One run of a baseline script on a train snapshot, k = 0 included.
InitAnyK ==
    /\ IdleSplitVars
    /\ IdleMetricVars
    /\ IdleEvalVars
    /\ IdleScoreVars
    /\ InitRecVars(1, TrainTables, 0..MaxK)
SpecAnyK == InitAnyK /\ [][Next]_vars

\* Two runs of a baseline script on the same train snapshot and configuration.
InitRerun ==
    /\ IdleSplitVars
    /\ IdleMetricVars
    /\ IdleEvalVars
    /\ IdleScoreVars
    /\ InitRecVars(2, {t \in TrainTables : Cardinality(t) <= MaxRerunRows}, 1..MaxK)
SpecRerun == InitRerun /\ [][Next]_vars

InitEval == IdleSplitVars /\ IdleMetricVars /\ IdleRecVars /\ InitEvalVars /\ IdleScoreVars
NextEval == EvaluateRecs
SpecEval == InitEval /\ [][NextEval]_vars

InitScore == IdleSplitVars /\ IdleMetricVars /\ IdleRecVars /\ IdleEvalVars /\ InitScoreVars
NextScore == BuildInteractions \/ ClockTick
SpecScore == InitScore /\ [][NextScore]_vars

\* A baseline script has written its recs file; metrics.py evaluates it.
InitPipeline == IdleSplitVars /\ IdleMetricVars /\ InitPipelineVars /\ IdleScoreVars
NextPipeline == EvaluateRecs
SpecPipeline == InitPipeline /\ [][NextPipeline]_vars

\* ==================================================================== claims

\* The order the specification prescribes: key descending, ties by id ascending.
CanonicalOrder(key, id) ==
    CHOOSE s \in SortDescending(key) :
        \A i, j \in DOMAIN s : (i < j /\ key[s[i]] = key[s[j]]) => id[s[i]] < id[s[j]]

FirstK(s, n) == SubSeq(s, 1, Min(n, Len(s)))

\* C1: every list returned by build_popularity_recs and by
\* build_cooccurrence_recs has length at most K and holds no item the user
\* has in train.
C1_RecsAtMostKAndUnseen ==
    /\ \A n \in DOMAIN popRuns : \A u \in DOMAIN popRuns[n].recs :
          /\ Len(popRuns[n].recs[u]) <= cfg_k
          /\ Range(popRuns[n].recs[u]) \cap Seen(train, u) = {}
    /\ \A n \in DOMAIN coRuns : \A u \in DOMAIN coRuns[n].recs :
          /\ Len(coRuns[n].recs[u]) <= cfg_k
          /\ Range(coRuns[n].recs[u]) \cap Seen(train, u) = {}

\* C2: evaluate_recs counts every user with a row in the recommendation file
\* (within the max_users cap), a user without test rows included, in
\* MetricResult.users and in the denominator of both means, such a user
\* adding recall 0 and AP 0.
C2_ZeroTruthUsersCounted ==
    \A n \in DOMAIN evalRuns :
        LET res == evalRuns[n]
            truth(u) == {r.article_id : r \in {x \in test : x.customer_id = u}}
            recalls == [u \in res.capped |-> recall_at_k(recs_df[u], truth(u), e_k)]
            aps == [u \in res.capped |-> ap_at_k(recs_df[u], truth(u), e_k)]
            m == Cardinality(res.capped)
        IN  /\ res.users = m
            /\ m > 0 => /\ res.recall_at_k = RatDiv(SumRat(recalls), m)
                        /\ res.map_at_k = RatDiv(SumRat(aps), m)


\* The rows of a table as a bag: how many times row r occurs in sequence s.
Occurrences(s, r) == Cardinality({i \in DOMAIN s : s[i] = r})

\* C3: make_time_split puts each input row in exactly one of train and test:
\* train holds exactly the rows with last_seen < cutoff, test exactly the rows
\* with last_seen >= cutoff, no row is lost, duplicated or invented.
C3_SplitPartition ==
    \A n \in DOMAIN splitRuns :
        LET out == splitRuns[n] IN
        /\ \A i \in DOMAIN out.train : out.train[i].last_seen < cutoff_date
        /\ \A i \in DOMAIN out.test : out.test[i].last_seen >= cutoff_date
        /\ \A i \in DOMAIN interactions :
              LET r == interactions[i] IN
              /\ Occurrences(out.train, r) + Occurrences(out.test, r) = 1
              /\ (Occurrences(out.train, r) = 1) <=> (r.last_seen < cutoff_date)
        /\ Len(out.train) + Len(out.test) = Len(interactions)
        /\ Range(out.train) \cup Range(out.test) = Range(interactions)
        /\ Range(out.train) \cap Range(out.test) = {}

\* C3 witness: a split whose train and test are both non-empty and where a row
\* dated exactly at the cutoff went to test.
C3_Witness ==
    /\ Len(splitRuns) = 1
    /\ splitRuns[1].train # <<>>
    /\ \E i \in DOMAIN splitRuns[1].test : splitRuns[1].test[i].last_seen = cutoff_date

\* The neighbour list the specification prescribes for item i: the first
\* neighbors_per_item neighbours by count descending, ties by neighbor_id ascending.
CanonicalNeighbors(counts, i, npi) ==
    LET nbrs == {j \in Items : <<i, j>> \in DOMAIN counts}
        s == CanonicalOrder([j \in nbrs |-> counts[<<i, j>>]], [j \in nbrs |-> j])
    IN  [n \in 1..Min(npi, Len(s)) |-> [neighbor |-> s[n], cnt |-> counts[<<i, s[n]>>]]]

NeighborFrames == Range(neighbors_df) \cup {coRuns[n].neighbors : n \in DOMAIN coRuns}

\* C4: every item of build_item_neighbors' output has at most
\* neighbors_per_item edges, they are exactly the top ones by count descending
\* with ties broken by neighbor_id ascending, listed in that order, and none has
\* neighbor = item.
C4_NeighborsTopByCountThenId ==
    \A nb \in NeighborFrames : \A i \in DOMAIN nb.edges :
        /\ Len(nb.edges[i]) <= neighbors_per_item
        /\ \A n \in DOMAIN nb.edges[i] : nb.edges[i][n].neighbor # i
        /\ nb.edges[i] = CanonicalNeighbors(nb.counts, i, neighbors_per_item)

\* C5: two runs of build_popularity_recs, or of build_item_neighbors followed
\* by build_cooccurrence_recs, on the same train snapshot and configuration
\* return the same users with the same ordered lists.
C5_RerunsIdentical ==
    /\ Len(popRuns) = 2 => popRuns[1].recs = popRuns[2].recs
    /\ Len(coRuns) = 2 => coRuns[1].recs = coRuns[2].recs

\* The pool the specification prescribes: the first 5000 items by train count
\* descending, ties by item_id ascending.
CanonicalPool(t) ==
    LET items == {r.article_id : r \in t}
    IN  FirstK(CanonicalOrder([a \in items |-> ItemCount(t, a)], [a \in items |-> a]),
               PoolLimit)

\* C6: build_popularity_recs returns for every user exactly the first K items
\* of the pool (count descending, ties item_id ascending) after skipping the
\* user's seen items, fewer when fewer exist.
C6_PopularityFirstKOfPool ==
    \A n \in DOMAIN popRuns : \A u \in DOMAIN popRuns[n].recs :
        popRuns[n].recs[u] =
            FirstK(SelectSeq(CanonicalPool(train), LAMBDA a : a \notin Seen(train, u)),
                   cfg_k)

\* The list the specification prescribes for user u from the neighbour edges.
CanonicalCoRecs(t, edges, u, kk, spu) ==
    LET mine == {x \in t : x.customer_id = u}
        rows == CanonicalOrder([r \in mine |-> r.implicit_score],
                               [r \in mine |-> r.article_id])
        seedset == {rows[i].article_id : i \in DOMAIN FirstK(rows, spu)}
        cands == Candidates(edges, seedset)
        ranked == CanonicalOrder([j \in cands |-> Score(edges, seedset, j)],
                                 [j \in cands |-> j])
    IN  FirstK(SelectSeq(ranked, LAMBDA j : j \notin Seen(t, u)), kk)

\* C7: build_cooccurrence_recs returns for every user the first K of: seeds =
\* top seed_items_per_user train items by implicit_score descending (ties
\* item_id ascending); score = sum of cnt over the edges from a seed to the
\* candidate; candidates by score descending (ties neighbor_id ascending);
\* seen candidates removed.
C7_CooccurrenceFirstKOfRanking ==
    \A n \in DOMAIN coRuns : \A u \in DOMAIN coRuns[n].recs :
        coRuns[n].recs[u] =
            CanonicalCoRecs(train, coRuns[n].neighbors.edges, u, cfg_k,
                            seed_items_per_user)

C9_ColdStartEmptyList ==
    /\ \A n \in DOMAIN coRuns : \A u \in coRuns[n].users :
          u \in DOMAIN coRuns[n].recs
    /\ \A n \in DOMAIN popRuns : \A u \in DOMAIN popRuns[n].recs :
          Seen(train, u) = {} => popRuns[n].recs[u] = <<>>

\* C10: two runs of the score builder over the same raw events give the same
\* days_since_last and implicit_score for every (user, item), whatever the
\* day each run executes on.
C10_ScoreIndependentOfClock ==
    Len(scoreRuns) = 2 => scoreRuns[1] = scoreRuns[2]

Distinct(s) == \A i, j \in DOMAIN s : i # j => s[i] # s[j]

\* A quotient <<n, d>> between 0 and 1.
InUnitRange(q) == q[2] > 0 /\ 0 <= q[1] /\ q[1] <= q[2]

====
